---- MODULE Spec2Model ----
(***************************************************************************)
(* Model of src/src/models/yolo_layer.py: the YoloLayer detection head.    *)
(*                                                                         *)
(* Numbers.  The tensors hold real numbers.  They are modelled exactly:    *)
(*   - a rational is a pair <<n, d>> in lowest terms with d > 0;           *)
(*   - a raw network value is the logarithm of a positive rational,        *)
(*     [ln |-> q, eps |-> e], standing for log(q + e * 1e-16), so that     *)
(*     torch.exp, torch.log and torch.sigmoid are computed exactly;        *)
(*   - a product with an exponential is [val |-> q, eps |-> e], standing   *)
(*     for q + e * 1e-16.                                                  *)
(* float32 rounding is not modelled.                                       *)
(***************************************************************************)
EXTENDS Integers, Sequences, FiniteSets, TLC

VARIABLES heads, ret, bt

vars == <<heads, ret, bt>>

(***************************************************************************)
(* Bounds of the model.                                                    *)
(***************************************************************************)
MaxGrid == 2
MaxBoxes == 2

(***************************************************************************)
(* Rational arithmetic.                                                    *)
(***************************************************************************)
Abs(n) == IF n < 0 THEN -n ELSE n

RECURSIVE GCD(_, _)
GCD(a, b) == IF b = 0 THEN a ELSE GCD(b, a % b)

R(n, d) ==
    LET g == GCD(Abs(n), Abs(d))
        s == IF d < 0 THEN -1 ELSE 1
    IN  <<(s * n) \div g, (s * d) \div g>>

RInt(n) == <<n, 1>>
RAdd(a, b) == R(a[1] * b[2] + b[1] * a[2], a[2] * b[2])
RSub(a, b) == R(a[1] * b[2] - b[1] * a[2], a[2] * b[2])
RMul(a, b) == R(a[1] * b[1], a[2] * b[2])
RDiv(a, b) == R(a[1] * b[2], a[2] * b[1])
RLt(a, b) == a[1] * b[2] < b[1] * a[2]
RMin(a, b) == IF RLt(b, a) THEN b ELSE a

\* Tensor.floor(): the largest integer not above a.
RFloor(a) == a[1] \div a[2]

\* Tensor.long(): conversion to integer truncates toward zero.
RLong(a) == IF a[1] >= 0 THEN a[1] \div a[2] ELSE -((-a[1]) \div a[2])

(***************************************************************************)
(* Construction parameters (YoloLayer.__init__).                           *)
(***************************************************************************)
Heads == {1, 2}

num_classes == 2

\* (a_w, a_h, im, re) in pixels
anchors == <<  <<RInt(2), RInt(4), RInt(0), RInt(1)>>,
               <<RInt(4), RInt(2), RInt(0), RInt(1)>>  >>

num_anchors == Len(anchors)

\* the stride given to the constructor
init_stride == RInt(8)

scale_x_y == R(6, 5)

ignore_thresh == R(2, 5)

Unset == "unset"

NoMetrics == [loss |-> "none"]

InitHead ==
    [ stride         |-> init_stride,
      grid_size      |-> 0,
      img_size       |-> 0,
      grid_x         |-> Unset,
      grid_y         |-> Unset,
      scaled_anchors |-> Unset,
      anchor_w       |-> Unset,
      anchor_h       |-> Unset,
      metrics        |-> NoMetrics ]

(***************************************************************************)
(* compute_grid_offsets: the head h (a record) after the call.             *)
(* grid_x and grid_y are indexed [row][column], rows and columns from 0.   *)
(***************************************************************************)
compute_grid_offsets(h, grid_size) ==
    LET g      == grid_size
        stride == R(h.img_size, g)
        sa     == [k \in 1..num_anchors |->
                     << RDiv(anchors[k][1], stride), RDiv(anchors[k][2], stride),
                        anchors[k][3], anchors[k][4] >>]
    IN  [h EXCEPT !.grid_size = g,
                  !.stride = stride,
                  !.grid_x = [i \in 0..(g - 1) |-> [j \in 0..(g - 1) |-> j]],
                  !.grid_y = [i \in 0..(g - 1) |-> [j \in 0..(g - 1) |-> i]],
                  !.scaled_anchors = sa,
                  !.anchor_w = [k \in 1..num_anchors |-> sa[k][1]],
                  !.anchor_h = [k \in 1..num_anchors |-> sa[k][2]]]

(***************************************************************************)
(* Logarithms and exponentials.                                            *)
(***************************************************************************)
\* torch.log(q + 1e-16)
LogEps(q) == [ln |-> q, eps |-> 1]

\* the float 0 of a log-valued tensor: log(1)
LogOfOne == [ln |-> RInt(1), eps |-> 0]

\* torch.exp(v)
Exp(v) == [val |-> v.ln, eps |-> RInt(v.eps)]

\* torch.sigmoid(v) of v = log(q): q / (1 + q)
Sigmoid(v) == RDiv(v.ln, RAdd(RInt(1), v.ln))

\* (q + e * 1e-16) * c
EMul(x, c) == [val |-> RMul(x.val, c), eps |-> RMul(x.eps, c)]

(***************************************************************************)
(* The rotated IoU of an anchor and a box of the same centre               *)
(* (utils.evaluation_utils.rotated_box_wh_iou_polygon), for orientations   *)
(* that are multiples of a quarter turn: (im, re) = (0, 1) keeps the box,  *)
(* (im, re) = (1, 0) exchanges its width and height.                       *)
(***************************************************************************)
EffW(w, h, im) == IF im = RInt(0) THEN w ELSE h
EffH(w, h, im) == IF im = RInt(0) THEN h ELSE w

rotated_box_wh_iou_polygon(anchor, gw, gh, gim, gre) ==
    LET w1    == EffW(anchor[1], anchor[2], anchor[3])
        h1    == EffH(anchor[1], anchor[2], anchor[3])
        w2    == EffW(gw, gh, gim)
        h2    == EffH(gw, gh, gim)
        inter == RMul(RMin(w1, w2), RMin(h1, h2))
        union == RSub(RAdd(RMul(w1, h1), RMul(w2, h2)), inter)
    IN  RDiv(inter, union)

(***************************************************************************)
(* build_targets.                                                          *)
(* A target is a sequence of rows, a row a sequence of fields              *)
(* <<batch, class, x, y, w, h, im, re>>, every field a rational.           *)
(* A slot is <<b, a, j, i>>: sample, anchor, row, column, all from 0.      *)
(***************************************************************************)
Slots(nB, nA, nG) == (0..(nB - 1)) \X (0..(nA - 1)) \X (0..(nG - 1)) \X (0..(nG - 1))

Boxes(target) == 1..Len(target)

\* target[:, 2:8]
target_boxes(row) == SubSeq(row, 3, IF Len(row) < 8 THEN Len(row) ELSE 8)

\* gxy = target_boxes[:, :2] * nG
gx(row, nG) == RMul(target_boxes(row)[1], RInt(nG))
gy(row, nG) == RMul(target_boxes(row)[2], RInt(nG))

\* gwh = target_boxes[:, 2:4] * nG
gw(row, nG) == RMul(target_boxes(row)[3], RInt(nG))
gh(row, nG) == RMul(target_boxes(row)[4], RInt(nG))

\* gimre = target_boxes[:, 4:]
gim(row) == target_boxes(row)[5]
gre(row) == target_boxes(row)[6]

\* gi, gj = gxy.long().t()
gi(row, nG) == RLong(gx(row, nG))
gj(row, nG) == RLong(gy(row, nG))

\* b, target_labels = target[:, :2].long().t()
b_of(row) == RLong(row[1])
target_label(row) == RLong(row[2])

\* ious[k] for the anchor of index k (from 0) and one row
iou(row, nG, sanchors, k) ==
    rotated_box_wh_iou_polygon(sanchors[k + 1], gw(row, nG), gh(row, nG), gim(row), gre(row))

\* the scan of ious.max(0) over the anchors from index k on: the index kept
\* is replaced only by an anchor of strictly greater IoU
RECURSIVE max_scan(_, _, _)
max_scan(v, k, best) ==
    IF k \notin DOMAIN v THEN best
    ELSE max_scan(v, k + 1, IF RLt(v[best], v[k]) THEN k ELSE best)

\* a scan that keeps the last index that attains the maximum
RECURSIVE max_scan_last(_, _, _)
max_scan_last(v, k, best) ==
    IF k \notin DOMAIN v THEN best
    ELSE max_scan_last(v, k + 1, IF RLt(v[k], v[best]) THEN best ELSE k)

\* best_n with ties broken toward the highest anchor index
best_n_last(row, nG, sanchors) ==
    max_scan_last([k \in 0..(Len(sanchors) - 1) |-> iou(row, nG, sanchors, k)], 1, 0)

\* best_ious, best_n = ious.max(0)
best_n(row, nG, sanchors) ==
    max_scan([k \in 0..(Len(sanchors) - 1) |-> iou(row, nG, sanchors, k)], 1, 0)

\* the index tuple (b, best_n, gj, gi) of one row
slot_of(row, nG, sanchors) ==
    <<b_of(row), best_n(row, nG, sanchors), gj(row, nG), gi(row, nG)>>

\* the index tuples of the rows of a target
slots_of(target, nG, sanchors) ==
    [n \in Boxes(target) |-> slot_of(target[n], nG, sanchors)]

\* ious.t(): for every row, its IoU with every anchor
ious_of(target, nG, sanchors) ==
    [n \in Boxes(target) |->
        [k \in 0..(Len(sanchors) - 1) |-> iou(target[n], nG, sanchors, k)]]

\* the rows of fewer than 8 fields cannot be unpacked into gim, gre
RowsWellFormed(target) == \A n \in Boxes(target) : Len(target[n]) >= 8

\* every index of an indexed assignment is inside its dimension
IndicesInRange(target, nB, nG, nC) ==
    \A n \in Boxes(target) :
        /\ b_of(target[n]) \in 0..(nB - 1)
        /\ gi(target[n], nG) \in 0..(nG - 1)
        /\ gj(target[n], nG) \in 0..(nG - 1)
        /\ target_label(target[n]) \in 0..(nC - 1)

(***************************************************************************)
(* An indexed assignment t[b, best_n, gj, gi] = values writes several      *)
(* values to one element when rows share a slot; which of them the element *)
(* keeps is not defined by index_put_.  A winner function names, for every *)
(* row, the row whose value its slot keeps; among rows of equal fields,     *)
(* which write equal values, it names the first.  sl is                    *)
(* slots_of(target, nG, sanchors).                                         *)
(***************************************************************************)
Winners(target, sl) ==
    { f \in [DOMAIN sl -> DOMAIN sl] :
        /\ \A n \in DOMAIN sl : sl[f[n]] = sl[n]
        /\ \A n, m \in DOMAIN sl : sl[n] = sl[m] => f[n] = f[m]
        /\ \A n, m \in DOMAIN sl : m < f[n] => target[m] # target[f[n]] }

TensorNames == {"tx", "ty", "tw", "th", "tim", "tre"}

\* the rows whose index tuple is the slot s
RowsAt(sl, s) == { n \in DOMAIN sl : sl[n] = s }

\* t[b, best_n, gj, gi] = values, on a tensor filled with fill
IndexPut(sl, slots, fill, values, f) ==
    [s \in slots |->
        IF RowsAt(sl, s) = {} THEN fill
        ELSE values[f[CHOOSE n \in RowsAt(sl, s) : TRUE]]]

\* clear_ignored with anchor_ious >= self.ignore_thresh
clear_ignored_at_threshold(mask, sl, anchor_ious) ==
    [s \in DOMAIN mask |->
        IF /\ s[1] = sl[1]
           /\ s[3] = sl[3]
           /\ s[4] = sl[4]
           /\ ~RLt(anchor_ious[s[2]], ignore_thresh)
        THEN FALSE
        ELSE mask[s]]

\* one pass of the loop of lines 104-105, for a row of index tuple sl:
\* noobj_mask[b[i], anchor_ious > self.ignore_thresh, gj[i], gi[i]] = 0
clear_ignored(mask, sl, anchor_ious) ==
    [s \in DOMAIN mask |->
        IF /\ s[1] = sl[1]
           /\ s[3] = sl[3]
           /\ s[4] = sl[4]
           /\ RLt(ignore_thresh, anchor_ious[s[2]])
        THEN FALSE
        ELSE mask[s]]

\* the loop of lines 104-105 from the row of index n on
RECURSIVE ignore_loop(_, _, _, _)
ignore_loop(mask, sl, ious, n) ==
    IF n > Len(sl) THEN mask
    ELSE ignore_loop(clear_ignored(mask, sl[n], ious[n]), sl, ious, n + 1)

\* tcls[b, best_n, gj, gi, target_labels] = 1
tcls_of(target, sl, slots, nC) ==
    [s \in slots |-> [c \in 0..(nC - 1) |->
        IF \E n \in RowsAt(sl, s) : target_label(target[n]) = c THEN 1 ELSE 0]]

\* the regression targets of one row: lines 108-115
tx_of(row, nG) == RSub(gx(row, nG), RInt(RFloor(gx(row, nG))))
ty_of(row, nG) == RSub(gy(row, nG), RInt(RFloor(gy(row, nG))))
\* tw_of with the height of the anchor in place of its width
tw_of_anchor_height(row, nG, sanchors, n) == LogEps(RDiv(gw(row, nG), sanchors[n + 1][2]))

tw_of(row, nG, sanchors, n) == LogEps(RDiv(gw(row, nG), sanchors[n + 1][1]))
th_of(row, nG, sanchors, n) == LogEps(RDiv(gh(row, nG), sanchors[n + 1][2]))

EmptyTargets(slots, nC) ==
    [ status     |-> "ok",
      obj_mask   |-> [s \in slots |-> FALSE],
      noobj_mask |-> [s \in slots |-> TRUE],
      tx         |-> [s \in slots |-> RInt(0)],
      ty         |-> [s \in slots |-> RInt(0)],
      tw         |-> [s \in slots |-> LogOfOne],
      th         |-> [s \in slots |-> LogOfOne],
      tim        |-> [s \in slots |-> RInt(0)],
      tre        |-> [s \in slots |-> RInt(0)],
      tcls       |-> [s \in slots |-> [c \in 0..(nC - 1) |-> 0]],
      tconf      |-> [s \in slots |-> 0] ]

BuildError == [status |-> "error"]

\* win: TensorNames -> Winners(target, slots_of(target, nG, sanchors))
build_targets(nB, nA, nG, nC, target, sanchors, win) ==
    LET slots == Slots(nB, nA, nG)
        sl == slots_of(target, nG, sanchors)
        ious == ious_of(target, nG, sanchors)
        rows == Boxes(target)
        any == [n \in rows |-> n]
        obj_mask == IndexPut(sl, slots, FALSE, [n \in rows |-> TRUE], any)
        noobj_0 == IndexPut(sl, slots, TRUE, [n \in rows |-> FALSE], any)
    IN  IF Len(target) = 0 THEN EmptyTargets(slots, nC)
        ELSE IF ~RowsWellFormed(target) THEN BuildError
        ELSE IF ~IndicesInRange(target, nB, nG, nC) THEN BuildError
        ELSE [ status     |-> "ok",
               obj_mask   |-> obj_mask,
               noobj_mask |-> ignore_loop(noobj_0, sl, ious, 1),
               tx         |-> IndexPut(sl, slots, RInt(0),
                                 [n \in rows |-> tx_of(target[n], nG)], win["tx"]),
               ty         |-> IndexPut(sl, slots, RInt(0),
                                 [n \in rows |-> ty_of(target[n], nG)], win["ty"]),
               tw         |-> IndexPut(sl, slots, LogOfOne,
                                 [n \in rows |-> tw_of(target[n], nG, sanchors, sl[n][2])],
                                 win["tw"]),
               th         |-> IndexPut(sl, slots, LogOfOne,
                                 [n \in rows |-> th_of(target[n], nG, sanchors, sl[n][2])],
                                 win["th"]),
               tim        |-> IndexPut(sl, slots, RInt(0),
                                 [n \in rows |-> gim(target[n])], win["tim"]),
               tre        |-> IndexPut(sl, slots, RInt(0),
                                 [n \in rows |-> gre(target[n])], win["tre"]),
               tcls       |-> tcls_of(target, sl, slots, nC),
               tconf      |-> [s \in slots |-> IF obj_mask[s] THEN 1 ELSE 0] ]

(***************************************************************************)
(* Losses.  A loss value is [nan |-> BOOLEAN, n |-> number of elements     *)
(* that contribute to it]; the value with no contributing element is the   *)
(* exact zero.  nn.MSELoss() and nn.BCELoss() reduce by the mean, and the   *)
(* mean of no element is NaN.                                              *)
(***************************************************************************)
Zero == [nan |-> FALSE, n |-> 0]
NaN == [nan |-> TRUE, n |-> 0]

\* self.mse_loss(p[mask], t[mask]), self.bce_loss(p[mask], t[mask]):
\* the mean over the selected elements
mean_loss(selected) ==
    IF selected = {} THEN NaN ELSE [nan |-> FALSE, n |-> Cardinality(selected)]

\* a + b
loss_add(a, b) == IF a.nan \/ b.nan THEN NaN ELSE [nan |-> FALSE, n |-> a.n + b.n]

Selected(mask) == { s \in DOMAIN mask : mask[s] }

\* lines 178-189, from the masks build_targets returned
losses(obj_mask, noobj_mask) ==
    LET loss_x == mean_loss(Selected(obj_mask))
        loss_y == mean_loss(Selected(obj_mask))
        loss_w == mean_loss(Selected(obj_mask))
        loss_h == mean_loss(Selected(obj_mask))
        loss_im == mean_loss(Selected(obj_mask))
        loss_re == mean_loss(Selected(obj_mask))
        loss_eular == loss_add(loss_im, loss_re)
        loss_conf_obj == mean_loss(Selected(obj_mask))
        loss_conf_noobj == mean_loss(Selected(noobj_mask))
        loss_conf == loss_add(loss_conf_obj, loss_conf_noobj)
        loss_cls == mean_loss(Selected(obj_mask))
        total_loss == loss_add(loss_add(loss_add(loss_add(loss_add(loss_add(
                          loss_x, loss_y), loss_w), loss_h), loss_eular), loss_conf), loss_cls)
    IN  [ loss |-> total_loss, x |-> loss_x, y |-> loss_y, w |-> loss_w, h |-> loss_h,
          im |-> loss_im, re |-> loss_re, conf |-> loss_conf, cls |-> loss_cls,
          conf_obj |-> loss_conf_obj, conf_noobj |-> loss_conf_noobj ]

\* lines 192-202: self.metrics
metrics_of(m) ==
    [ loss |-> m.loss, x |-> m.x, y |-> m.y, w |-> m.w, h |-> m.h,
      im |-> m.im, re |-> m.re, conf |-> m.conf, cls |-> m.cls ]

(***************************************************************************)
(* forward.                                                                *)
(* The input tensor x is [n, chan, g, r]: n samples, chan channels, a g    *)
(* by g grid, every element the raw value log(r).                          *)
(* The targets are [given, rows]: given is FALSE for targets=None.         *)
(* ret[hd] records the last call of the head hd and what it returned:      *)
(* status "ok" with the output, the loss and the loss terms, or "error".    *)
(***************************************************************************)
Raw(x) == [ln |-> x.r, eps |-> 0]

\* x.view(num_samples, self.num_anchors, self.num_classes + 7, grid_size, grid_size)
ViewFits(x) == x.chan = num_anchors * (num_classes + 7)

\* torch.sigmoid(prediction[..., 0]) * self.scale_x_y - 0.5 * (self.scale_x_y - 1)
centre(x) ==
    RSub(RMul(Sigmoid(Raw(x)), scale_x_y), RMul(R(1, 2), RSub(scale_x_y, RInt(1))))

\* pred_boxes[..., 0] = x.detach() + self.grid_x, at the slot s
pred_box_x(h, x, s) == RAdd(x, RInt(h.grid_x[s[3]][s[4]]))

\* pred_boxes[..., 1] = y.detach() + self.grid_y, at the slot s
pred_box_y(h, y, s) == RAdd(y, RInt(h.grid_y[s[3]][s[4]]))

\* pred_boxes[..., 2] = torch.exp(w.detach()) * self.anchor_w, at the slot s
pred_box_w(h, w, s) == EMul(Exp(w), h.anchor_w[s[2] + 1])

\* pred_boxes[..., 3] = torch.exp(h.detach()) * self.anchor_h, at the slot s
pred_box_h(h, w, s) == EMul(Exp(w), h.anchor_h[s[2] + 1])

\* lines 154-167: the box list, for the slot <<b, a, j, i>>
output_of(h, x) ==
    LET c  == centre(x)
        sg == Sigmoid(Raw(x))
        cl == [k \in 0..(num_classes - 1) |-> sg]
    IN  [s \in Slots(x.n, num_anchors, x.g) |->
           [ cx   |-> RMul(pred_box_x(h, c, s), h.stride),
             cy   |-> RMul(pred_box_y(h, c, s), h.stride),
             w    |-> EMul(pred_box_w(h, Raw(x), s), h.stride),
             h    |-> EMul(pred_box_h(h, Raw(x), s), h.stride),
             im   |-> Raw(x),
             re   |-> Raw(x),
             conf |-> sg,
             cls  |-> cl ]]

\* lines 130-150: the head after the grid offsets are brought up to date
head_after_offsets(h, x, img_size) ==
    LET h1 == [h EXCEPT !.img_size = img_size]
    IN  IF x.g # h1.grid_size THEN compute_grid_offsets(h1, x.g) ELSE h1

\* the choices of the indexed assignments of one build_targets call
WinChoices(target, nG, sanchors) ==
    IF Len(target) > 0 /\ RowsWellFormed(target)
    THEN [TensorNames -> Winners(target, slots_of(target, nG, sanchors))]
    ELSE {[k \in TensorNames |-> <<>>]}

NoReturn == [status |-> "none"]

\* no loss term is computed when targets is None
NoTerms == [loss |-> "none"]

Call(x, targets, img_size) == [x |-> x, targets |-> targets, img_size |-> img_size]

Forward(hd, x, targets, img_size) ==
    LET h1 == [heads[hd] EXCEPT !.img_size = img_size]
        h2 == head_after_offsets(heads[hd], x, img_size)
        call == Call(x, targets, img_size)
    IN  IF ~ViewFits(x)
        THEN /\ heads' = [heads EXCEPT ![hd] = h1]
             /\ ret' = [ret EXCEPT ![hd] = [status |-> "error", call |-> call]]
             /\ UNCHANGED bt
        ELSE IF ~targets.given
        THEN /\ heads' = [heads EXCEPT ![hd] = h2]
             /\ ret' = [ret EXCEPT ![hd] =
                          [status |-> "ok", call |-> call,
                           output |-> output_of(h2, x), loss |-> Zero,
                           terms |-> NoTerms]]
             /\ UNCHANGED bt
        ELSE \E win \in WinChoices(targets.rows, x.g, h2.scaled_anchors) :
               LET t == build_targets(x.n, num_anchors, x.g, num_classes,
                                      targets.rows, h2.scaled_anchors, win)
                   m == losses(t.obj_mask, t.noobj_mask)
               IN  IF t.status = "error"
                   THEN /\ heads' = [heads EXCEPT ![hd] = h2]
                        /\ ret' = [ret EXCEPT ![hd] = [status |-> "error", call |-> call]]
                        /\ UNCHANGED bt
                   ELSE /\ heads' = [heads EXCEPT ![hd] = [h2 EXCEPT !.metrics = metrics_of(m)]]
                        /\ ret' = [ret EXCEPT ![hd] =
                                     [status |-> "ok", call |-> call,
                                      output |-> output_of(h2, x), loss |-> m.loss,
                                      terms |-> m]]
                        /\ UNCHANGED bt

(***************************************************************************)
(* Inputs.                                                                 *)
(***************************************************************************)
Grids == 1..MaxGrid

ImgSizes == {4, 8}

Row(b, c, x, y, w, h, im, re) == <<RInt(b), RInt(c), x, y, w, h, RInt(im), RInt(re)>>

\* ground truths: two that share a slot on every grid (different class, centre
\* and size), one of the same cell and another best anchor, one of another
\* cell, one of the other sample, and two centred on the border of the image
GTRows ==
    { Row(0, 0, R(1, 4), R(1, 4), R(1, 2), RInt(1), 0, 1),
      Row(0, 1, R(3, 8), R(1, 4), R(1, 2), R(3, 4), 0, 1),
      Row(0, 0, R(1, 4), R(1, 4), R(1, 2), RInt(1), 1, 0),
      Row(0, 1, R(3, 4), R(1, 4), R(1, 2), R(1, 2), 0, 1),
      Row(1, 1, R(1, 4), R(1, 4), R(1, 2), R(1, 2), 0, 1),
      Row(0, 0, RInt(1), R(1, 4), R(1, 2), R(1, 2), 0, 1),
      Row(0, 0, R(1, 4), RInt(1), R(1, 2), R(1, 2), 0, 1) }

RECURSIVE SeqsUpTo(_, _)
SeqsUpTo(S, n) ==
    IF n = 0 THEN {<<>>}
    ELSE SeqsUpTo(S, n - 1) \cup { Append(q, e) : q \in SeqsUpTo(S, n - 1), e \in S }

TargetLists == SeqsUpTo(GTRows, MaxBoxes)

\* the tensors of the right number of channels, and one of a wrong number
GoodTensors == [n : {1}, chan : {num_anchors * (num_classes + 7)}, g : Grids, r : {RInt(3)}]

Tensors == GoodTensors \cup [n : {1}, chan : {num_anchors * 7}, g : {1}, r : {RInt(3)}]

GoodRow == Row(0, 1, R(3, 4), R(1, 4), R(1, 2), RInt(1), 0, 1)

NoTargets == [given |-> FALSE, rows |-> <<>>]

PairTargets == { NoTargets, [given |-> TRUE, rows |-> <<GoodRow>>] }

FwdTargets ==
    PairTargets \cup
    { [given |-> TRUE, rows |-> <<>>],
      [given |-> TRUE, rows |-> <<SubSeq(GoodRow, 1, 7)>>],
      [given |-> TRUE, rows |-> <<Append(GoodRow, RInt(1))>>] }

(***************************************************************************)
(* The head as a state machine: any sequence of forward calls on one head. *)
(***************************************************************************)
NoBuild == [pc |-> "idle"]

Init == /\ heads = [h \in Heads |-> InitHead]
        /\ ret = [h \in Heads |-> NoReturn]
        /\ bt = NoBuild

Next == \E x \in Tensors, targets \in FwdTargets, img_size \in ImgSizes :
            Forward(1, x, targets, img_size)

Spec == Init /\ [][Next]_vars

(***************************************************************************)
(* Two heads built with the same parameters, each serving any sequence of  *)
(* well-formed forward calls.                                              *)
(***************************************************************************)
NextPair == \E hd \in Heads, x \in GoodTensors, targets \in PairTargets, img_size \in ImgSizes :
                Forward(hd, x, targets, img_size)

SpecPair == Init /\ [][NextPair]_vars

(***************************************************************************)
(* build_targets as a function: one call on a head whose grid offsets were *)
(* computed for the grid nG and the image size img_size.                   *)
(***************************************************************************)
BuildAnchors(nG, img_size) ==
    compute_grid_offsets([InitHead EXCEPT !.img_size = img_size], nG).scaled_anchors

InitTargets ==
    /\ heads = [h \in Heads |-> InitHead]
    /\ ret = [h \in Heads |-> NoReturn]
    /\ \E nG \in Grids, img_size \in ImgSizes, target \in TargetLists :
          bt = [pc |-> "start", nB |-> 2, nG |-> nG, img_size |-> img_size,
                target |-> target, out |-> BuildError]

BuildTargetsCall ==
    /\ bt.pc = "start"
    /\ \E win \in WinChoices(bt.target, bt.nG, BuildAnchors(bt.nG, bt.img_size)) :
          bt' = [bt EXCEPT !.pc = "done",
                           !.out = build_targets(bt.nB, num_anchors, bt.nG, num_classes,
                                                 bt.target, BuildAnchors(bt.nG, bt.img_size), win)]
    /\ UNCHANGED <<heads, ret>>

NextTargets == BuildTargetsCall

SpecTargets == InitTargets /\ [][NextTargets]_vars

(***************************************************************************)
(* Properties of build_targets (checked under SpecTargets).                *)
(***************************************************************************)
\* the call has returned its tensors
BtDone == bt.pc = "done" /\ bt.out.status = "ok"

BtAnchors == BuildAnchors(bt.nG, bt.img_size)

BtHead == compute_grid_offsets([InitHead EXCEPT !.img_size = bt.img_size], bt.nG)

BtRows == 1..Len(bt.target)

\* the rotated IoU of the row n with the anchor k
BtIoU(n, k) == iou(bt.target[n], bt.nG, BtAnchors, k)

\* a <= b
RLe(a, b) == ~RLt(b, a)

\* the lowest-index anchor that attains the maximum rotated IoU with the row n
LowestBest(n) ==
    CHOOSE k \in 0..(num_anchors - 1) :
        /\ \A m \in 0..(num_anchors - 1) : RLe(BtIoU(n, m), BtIoU(n, k))
        /\ \A m \in 0..(k - 1) : RLt(BtIoU(n, m), BtIoU(n, k))

\* the centre and the size of the row n in grid units
GridX(n) == RMul(bt.target[n][3], RInt(bt.nG))
GridY(n) == RMul(bt.target[n][4], RInt(bt.nG))
GridW(n) == RMul(bt.target[n][5], RInt(bt.nG))
GridH(n) == RMul(bt.target[n][6], RInt(bt.nG))

\* the slot of the row n: batch index, best anchor, floor of the centre
AssignedSlot(n) ==
    <<bt.target[n][1][1], LowestBest(n), RFloor(GridY(n)), RFloor(GridX(n))>>

SlotsPairwiseDifferent ==
    \A n, m \in BtRows : n # m => AssignedSlot(n) # AssignedSlot(m)

\* C2: obj_mask is true exactly at the slots (batch, lowest-index best anchor,
\* floor of the centre) of the ground truths, so the number of true entries is
\* the number of ground truths when their slots are pairwise different.
C2_ObjMaskExactlyAtAssignedSlots ==
    BtDone =>
        /\ \A s \in DOMAIN bt.out.obj_mask :
              bt.out.obj_mask[s] <=> (\E n \in BtRows : AssignedSlot(n) = s)
        /\ SlotsPairwiseDifferent =>
              Cardinality(Selected(bt.out.obj_mask)) = Len(bt.target)

\* two ground truths of different slots, one of them with the same IoU for
\* both anchors, have been assigned
C2_Witness ==
    /\ BtDone
    /\ Len(bt.target) = 2
    /\ SlotsPairwiseDifferent
    /\ \E n \in BtRows : BtIoU(n, 0) = BtIoU(n, 1)
    /\ \E n \in BtRows : LowestBest(n) = 1
    /\ Cardinality(Selected(bt.out.obj_mask)) = 2

\* the row n lies in the sample and the cell of the slot s
InCellOf(n, s) ==
    /\ bt.target[n][1][1] = s[1]
    /\ RFloor(GridY(n)) = s[3]
    /\ RFloor(GridX(n)) = s[4]

\* C3: noobj_mask is false at a slot iff a ground truth of its sample and cell
\* has the slot's anchor as best anchor or an IoU with it above ignore_thresh;
\* an anchor above the threshold that is the best anchor of no ground truth of
\* the cell is false in both masks, and no slot is true in both masks.
C3_NoObjMaskClearedExactly ==
    BtDone =>
        /\ \A s \in DOMAIN bt.out.noobj_mask :
              (~bt.out.noobj_mask[s]) <=>
                 (\E n \in BtRows :
                     /\ InCellOf(n, s)
                     /\ (LowestBest(n) = s[2] \/ RLt(ignore_thresh, BtIoU(n, s[2]))))
        /\ \A s \in DOMAIN bt.out.noobj_mask :
              ( /\ \E n \in BtRows : InCellOf(n, s) /\ RLt(ignore_thresh, BtIoU(n, s[2]))
                /\ \A n \in BtRows : InCellOf(n, s) => LowestBest(n) # s[2] )
              => (~bt.out.noobj_mask[s] /\ ~bt.out.obj_mask[s])
        /\ \A s \in DOMAIN bt.out.noobj_mask :
              ~(bt.out.noobj_mask[s] /\ bt.out.obj_mask[s])

\* an anchor that is not the best one is above the threshold for one ground
\* truth and exactly at the threshold for another one, in different cells
C3_Witness ==
    /\ BtDone
    /\ \E s \in DOMAIN bt.out.noobj_mask :
          /\ \E n \in BtRows : InCellOf(n, s) /\ RLt(ignore_thresh, BtIoU(n, s[2]))
          /\ \A n \in BtRows : InCellOf(n, s) => LowestBest(n) # s[2]
          /\ ~bt.out.noobj_mask[s]
          /\ ~bt.out.obj_mask[s]
    /\ \E s \in DOMAIN bt.out.noobj_mask :
          /\ \E n \in BtRows : InCellOf(n, s) /\ BtIoU(n, s[2]) = ignore_thresh
          /\ bt.out.noobj_mask[s]

\* the decode formulas applied to the targets stored at the slot of the row n
\* give back its centre and its size (the size up to the epsilon), and tx, ty
\* are the fractional parts of the centre
RoundTrip(n) ==
    LET s == AssignedSlot(n)
    IN  /\ pred_box_x(BtHead, bt.out.tx[s], s) = GridX(n)
        /\ pred_box_y(BtHead, bt.out.ty[s], s) = GridY(n)
        /\ pred_box_w(BtHead, bt.out.tw[s], s).val = GridW(n)
        /\ pred_box_h(BtHead, bt.out.th[s], s).val = GridH(n)
        /\ bt.out.tx[s] = RSub(GridX(n), RInt(RFloor(GridX(n))))
        /\ bt.out.ty[s] = RSub(GridY(n), RInt(RFloor(GridY(n))))
        /\ RLe(RInt(0), bt.out.tx[s]) /\ RLt(bt.out.tx[s], RInt(1))
        /\ RLe(RInt(0), bt.out.ty[s]) /\ RLt(bt.out.ty[s], RInt(1))

\* C7 as stated: every in-range ground truth is given back by decoding the
\* targets stored at its slot.
C7_EveryGroundTruthRoundTrips ==
    BtDone => \A n \in BtRows : RoundTrip(n)

\* no ground truth of another centre or size shares the slot of the row n
AloneInSlot(n) ==
    \A m \in BtRows :
        AssignedSlot(m) = AssignedSlot(n) =>
            /\ GridX(m) = GridX(n) /\ GridY(m) = GridY(n)
            /\ GridW(m) = GridW(n) /\ GridH(m) = GridH(n)

\* C7 amended: a ground truth whose slot it shares with no ground truth of
\* another centre or size is given back by decoding the targets of its slot.
C7_UncontestedGroundTruthRoundTrips ==
    BtDone => \A n \in BtRows : AloneInSlot(n) => RoundTrip(n)

\* a ground truth off the diagonal of the grid, with a fractional centre and
\* the second anchor as best anchor, has been encoded beside another one
C7_Witness ==
    /\ BtDone
    /\ Len(bt.target) = 2
    /\ \E n \in BtRows :
          /\ AloneInSlot(n)
          /\ AssignedSlot(n)[3] # AssignedSlot(n)[4]
          /\ bt.out.tx[AssignedSlot(n)] # RInt(0)
    /\ \E n \in BtRows : AloneInSlot(n) /\ LowestBest(n) = 1

\* the last row of the list among those of the slot s
LastAt(s) ==
    CHOOSE n \in BtRows :
        /\ AssignedSlot(n) = s
        /\ \A m \in BtRows : AssignedSlot(m) = s => m <= n

\* C8: at a slot to which several ground truths map, the six regression
\* targets are all those of the last of them in the list.
C8_LastGroundTruthWinsWhole ==
    BtDone =>
        \A s \in DOMAIN bt.out.obj_mask :
            (\E n \in BtRows : AssignedSlot(n) = s) =>
                LET row == bt.target[LastAt(s)]
                IN  /\ bt.out.tx[s] = tx_of(row, bt.nG)
                    /\ bt.out.ty[s] = ty_of(row, bt.nG)
                    /\ bt.out.tw[s] = tw_of(row, bt.nG, BtAnchors, s[2])
                    /\ bt.out.th[s] = th_of(row, bt.nG, BtAnchors, s[2])
                    /\ bt.out.tim[s] = gim(row)
                    /\ bt.out.tre[s] = gre(row)

\* C9: tcls is one-hot, at the class of a ground truth of the slot, where
\* obj_mask is true, and all-zero where obj_mask is false.
C9_TclsOneHotAtObjects ==
    BtDone =>
        \A s \in DOMAIN bt.out.obj_mask :
            IF bt.out.obj_mask[s]
            THEN /\ Cardinality({c \in DOMAIN bt.out.tcls[s] : bt.out.tcls[s][c] = 1}) = 1
                 /\ \A c \in DOMAIN bt.out.tcls[s] : bt.out.tcls[s][c] \in {0, 1}
                 /\ \E n \in BtRows :
                       AssignedSlot(n) = s /\ bt.out.tcls[s][bt.target[n][2][1]] = 1
            ELSE \A c \in DOMAIN bt.out.tcls[s] : bt.out.tcls[s][c] = 0

\* the normalized centre of the row n lies in [0, 1]
CentreInUnitRange(n) ==
    /\ RLe(RInt(0), bt.target[n][3]) /\ RLe(bt.target[n][3], RInt(1))
    /\ RLe(RInt(0), bt.target[n][4]) /\ RLe(bt.target[n][4], RInt(1))

\* C10: a ground truth whose normalized centre lies in [0, 1] gets cell
\* indices inside the grid, so build_targets writes inside its tensors.
C10_CellsInsideGrid ==
    (bt.pc = "done" /\ \A n \in BtRows : CentreInUnitRange(n)) =>
        /\ \A n \in BtRows :
              /\ gi(bt.target[n], bt.nG) \in 0..(bt.nG - 1)
              /\ gj(bt.target[n], bt.nG) \in 0..(bt.nG - 1)
        /\ bt.out.status = "ok"

(***************************************************************************)
(* Properties of forward (checked under Spec and SpecPair).                *)
(***************************************************************************)
\* the last forward call of the head hd returned
Returned(hd) == ret[hd].status = "ok"

\* C1: after every forward call the stride is the image_size of the call
\* divided by its grid_size, and every scaled anchor is the anchor with its
\* width and height divided by that stride.
C1_StrideIsImageOverGrid ==
    \A hd \in Heads :
        Returned(hd) =>
            LET stride == R(ret[hd].call.img_size, ret[hd].call.x.g)
            IN  /\ heads[hd].stride = stride
                /\ \A k \in 1..num_anchors :
                      heads[hd].scaled_anchors[k] =
                          << RDiv(anchors[k][1], stride), RDiv(anchors[k][2], stride),
                             anchors[k][3], anchors[k][4] >>

\* C4: with a ground-truth list of zero boxes every loss term over obj_mask
\* is exactly zero, and total_loss is the no-object confidence term.
C4_EmptyTargetsGiveZeroObjectLoss ==
    \A hd \in Heads :
        (Returned(hd) /\ ret[hd].call.targets.given /\ Len(ret[hd].call.targets.rows) = 0) =>
            /\ \A t \in {"x", "y", "w", "h", "im", "re", "conf_obj", "cls"} :
                  ret[hd].terms[t] = Zero
            /\ ~ret[hd].loss.nan
            /\ ret[hd].loss = ret[hd].terms.conf_noobj

\* the tensor has a wrong number of channels, or a ground-truth row has not
\* exactly 8 fields
Malformed(call) ==
    \/ call.x.chan # num_anchors * (7 + num_classes)
    \/ /\ call.targets.given
       /\ \E n \in 1..Len(call.targets.rows) : Len(call.targets.rows[n]) # 8

\* C5: a forward call on a malformed tensor or ground truth ends in an error
\* and leaves the state of the head as it was before the call.
C5_MalformedCallFailsBeforeAnyChange ==
    [][ \A hd \in Heads :
           ( /\ (ret'[hd] # ret[hd] \/ heads'[hd] # heads[hd])
             /\ ret'[hd].status # "none"
             /\ Malformed(ret'[hd].call) )
           => (ret'[hd].status = "error" /\ heads'[hd] = heads[hd]) ]_vars

\* C6: two heads of the same parameters return the same box list for the
\* same tensor and image_size, whatever each has served before and whether
\* or not ground truth came with the call.
C6_OutputIndependentOfHistory ==
    ( /\ Returned(1) /\ Returned(2)
      /\ ret[1].call.x = ret[2].call.x
      /\ ret[1].call.img_size = ret[2].call.img_size )
    => ret[1].output = ret[2].output
====
